---- MODULE Spec2Model ----
(***************************************************************************)
(* Tetrisnake: the simulation core (Grid, Snake, Game) as a state machine. *)
(*                                                                         *)
(* Game        src/unnamed/part_005 (the Game.js that goes with the        *)
(*             configuration of src/unnamed/part_003)                      *)
(* Grid        src/js/Grid.js                                              *)
(* Snake       src/js/Snake.js                                             *)
(* InputHandler src/unnamed/part_004, UI src/unnamed/part_002              *)
(*                                                                         *)
(* Time.  performance.now() and the requestAnimationFrame timestamp are    *)
(* one clock that advances only between frames.  The model keeps the       *)
(* differences the code uses: sinceUpdate = now - Snake.lastUpdateTime     *)
(* (saturated at directionChangeDelay, the only value it is compared to),  *)
(* holdTime = now - Snake.keyHoldStart (saturated at HOLD_SCALE, where     *)
(* min(holdTime / HOLD_SCALE, 1) saturates).  Every time of the model      *)
(* (these two, Game.accumulator, the frame deltas, the values of           *)
(* computeDelay) is in ticks of 1/HOLD_SCALE ms, which keeps the           *)
(* interpolation of computeDelay in integers.                              *)
(*                                                                         *)
(* Randomness (Math.random) is a nondeterministic choice: the operators    *)
(* that model a method return the SET of states the method can return.     *)
(*                                                                         *)
(* Control.  JavaScript runs every event handler to completion, so pc is   *)
(* "idle" between handlers and clicks and frames start only there.  A      *)
(* gameLoop call is cut at the iterations of the while loop of updateGame: *)
(* Frame / NextCallback / ClickStart run it up to the loop, UpdateSnake is *)
(* one iteration, ExitLoop is the rest of gameLoop.                        *)
(***************************************************************************)
EXTENDS Integers, Sequences, FiniteSets, TLC

\* ---------------------------------------------------------------- bounds
\* The grid of the model (config.GRID_WIDTH is 20, config.GRID_HEIGHT is 30
\* in the program; the model checks a smaller grid).
GRID_WIDTH == 2
GRID_HEIGHT == 4
\* A frame of a game that goes on is taken only while fewer than MaxLanded
\* blocks have landed and the score has grown by less than MaxScore since
\* the state the specification starts the session in (caps on the two
\* counters of a session); frames of a game that is over are always taken.
MaxLanded == 1
MaxScore == 11
\* At most MaxLoops chains of gameLoop callbacks are started.
MaxLoops == 2
\* A short frame lasts ShortFrame ms (less than directionChangeDelay).
ShortFrame == 10

\* ------------------------------------------------------------- constants
MOVE_DELAY == 350
FAST_MOVE_DELAY == 50
HOLD_SCALE == 500
directionChangeDelay == 16
BLOCKS_PER_LEVEL == 80
MIN_BASE_DELAY == 60
MIN_HOLD_DELAY == 40
LEVEL_STEP == 20
MAX_LEVEL_STEPS == 9
SEGMENT_STEP == 20
MAX_SPAWN_LEN == 4
LINE_SCORE == 50
FOOD_SCORE == 10

\* ms to ticks
Ticks(ms) == ms * HOLD_SCALE

Null == << >>
NoKey == "none"
DirectionKeys == {"ArrowUp", "ArrowDown", "ArrowLeft", "ArrowRight"}

Min(a, b) == IF a < b THEN a ELSE b
Max(a, b) == IF a > b THEN a ELSE b

\* InputHandler.directionMapping
directionMapping(key) ==
  CASE key = "ArrowUp" -> <<0, -1>>
    [] key = "ArrowDown" -> <<0, 1>>
    [] key = "ArrowLeft" -> <<-1, 0>>
    [] key = "ArrowRight" -> <<1, 0>>

Opposite(d) == <<0 - d[1], 0 - d[2]>>

VARIABLES
  body, direction, nextDirection, activeDirectionKey, holdTime, sinceUpdate,
  staticBlocks, food, landedBlocks,
  score, level, gameOver, paused, pausePressed, accumulator,
  mainMenuShown, pausedShown, gameOverShown,
  loops, hung, events,
  pc, delay, callbacksLeft, inPause, inQuit, inKey, linesCleared

vars == <<body, direction, nextDirection, activeDirectionKey, holdTime,
          sinceUpdate, staticBlocks, food, landedBlocks, score, level,
          gameOver, paused, pausePressed, accumulator, mainMenuShown,
          pausedShown, gameOverShown, loops, hung, events, pc, delay,
          callbacksLeft, inPause, inQuit, inKey, linesCleared>>

\* The program state as one record; the methods below map such records.
Cur ==
  [body |-> body, direction |-> direction, nextDirection |-> nextDirection,
   activeDirectionKey |-> activeDirectionKey, holdTime |-> holdTime,
   sinceUpdate |-> sinceUpdate, staticBlocks |-> staticBlocks, food |-> food,
   landedBlocks |-> landedBlocks, score |-> score, level |-> level,
   gameOver |-> gameOver, paused |-> paused, pausePressed |-> pausePressed,
   accumulator |-> accumulator, mainMenuShown |-> mainMenuShown,
   pausedShown |-> pausedShown, gameOverShown |-> gameOverShown,
   loops |-> loops, hung |-> hung, events |-> << >>, pc |-> pc,
   delay |-> delay, callbacksLeft |-> callbacksLeft, inPause |-> inPause,
   inQuit |-> inQuit, inKey |-> inKey, linesCleared |-> linesCleared]

Becomes(g) ==
  /\ body' = g.body
  /\ direction' = g.direction
  /\ nextDirection' = g.nextDirection
  /\ activeDirectionKey' = g.activeDirectionKey
  /\ holdTime' = g.holdTime
  /\ sinceUpdate' = g.sinceUpdate
  /\ staticBlocks' = g.staticBlocks
  /\ food' = g.food
  /\ landedBlocks' = g.landedBlocks
  /\ score' = g.score
  /\ level' = g.level
  /\ gameOver' = g.gameOver
  /\ paused' = g.paused
  /\ pausePressed' = g.pausePressed
  /\ accumulator' = g.accumulator
  /\ mainMenuShown' = g.mainMenuShown
  /\ pausedShown' = g.pausedShown
  /\ gameOverShown' = g.gameOverShown
  /\ loops' = g.loops
  /\ hung' = g.hung
  /\ events' = g.events
  /\ pc' = g.pc
  /\ delay' = g.delay
  /\ callbacksLeft' = g.callbacksLeft
  /\ inPause' = g.inPause
  /\ inQuit' = g.inQuit
  /\ inKey' = g.inKey
  /\ linesCleared' = g.linesCleared

Emit(g, e) == [g EXCEPT !.events = Append(@, e)]

\* ------------------------------------------------------------------ Grid
isStaticBlock(g, x, y) == <<x, y>> \in g.staticBlocks

\* Snake.isCollidingWith with the tail never excluded.
isCollidingWith_withTail(g, x, y, excludeTail) ==
  \E i \in 1..Len(g.body) : i # 1 /\ g.body[i] = <<x, y>>

\* Snake.isCollidingWith
isCollidingWith(g, x, y, excludeTail) ==
  \E i \in 1..Len(g.body) :
    /\ i # 1
    /\ ~(excludeTail /\ i = Len(g.body))
    /\ g.body[i] = <<x, y>>

\* The cells the do-while of Grid.spawnFood can leave in this.food.
FoodCells(g, withSnake) ==
  {c \in (0..(GRID_WIDTH - 1)) \X (1..(GRID_HEIGHT - 1)) :
     /\ ~isStaticBlock(g, c[1], c[2])
     /\ ~(withSnake /\ isCollidingWith(g, c[1], c[2], FALSE))}

\* Grid.spawnFood: with no acceptable cell the loop never ends.
spawnFood(g, withSnake) ==
  IF g.hung THEN {g}
  ELSE IF FoodCells(g, withSnake) = {} THEN {[g EXCEPT !.hung = TRUE]}
  ELSE {[g EXCEPT !.food = c] : c \in FoodCells(g, withSnake)}

isSnakeEatingFood(g, x, y) == x = g.food[1] /\ y = g.food[2]

isCollision(g, x, y) ==
  \/ x < 0
  \/ x >= GRID_WIDTH
  \/ y < 0
  \/ y >= GRID_HEIGHT
  \/ isStaticBlock(g, x, y)

lockSnake(g) ==
  [g EXCEPT !.staticBlocks = @ \cup {g.body[i] : i \in 1..Len(g.body)},
            !.landedBlocks = @ + Len(g.body)]

isLineFull(blocks, y) == \A x \in 0..(GRID_WIDTH - 1) : <<x, y>> \in blocks

removeLine(blocks, y) ==
  {<<c[1], IF c[2] < y THEN c[2] + 1 ELSE c[2]>> :
     c \in {b \in blocks : ~(b[2] = y /\ b[1] \in 0..(GRID_WIDTH - 1))}}

\* The loop of Grid.clearLines from row y on: <<blocks, cleared>>.
RECURSIVE clearLinesFrom(_, _, _)

clearLinesFrom(blocks, y, cleared) ==
  IF y < 0 THEN <<blocks, cleared>>
  ELSE IF isLineFull(blocks, y)
       THEN clearLinesFrom(removeLine(blocks, y), y, cleared + 1)
       ELSE clearLinesFrom(blocks, y - 1, cleared)

\* Grid.clearLines returning after the first full row it removes.
clearLines_firstRowOnly(blocks) ==
  LET full == {y \in 0..(GRID_HEIGHT - 1) : isLineFull(blocks, y)}
  IN IF full = {} THEN <<blocks, 0>>
     ELSE <<removeLine(blocks, CHOOSE y \in full : \A z \in full : z <= y), 1>>

\* Grid.clearLines: <<the field it leaves, the number it returns>>.
clearLines(blocks) == clearLinesFrom(blocks, GRID_HEIGHT - 1, 0)

\* ----------------------------------------------------------------- Snake
SpawnLengths == 1..Min(MAX_SPAWN_LEN, GRID_HEIGHT \div 2)

\* Snake.spawn with the held key and its timer left as they are.
spawn_keepsHeldKey(g) ==
  {[g EXCEPT !.body = [i \in 1..len |-> <<GRID_WIDTH \div 2, 0 - (i - 1)>>],
             !.direction = <<0, 1>>,
             !.nextDirection = Null,
             !.sinceUpdate = Ticks(directionChangeDelay)] :
     len \in SpawnLengths}

\* Snake.spawn
spawn(g) ==
  {[g EXCEPT !.body = [i \in 1..len |-> <<GRID_WIDTH \div 2, 0 - (i - 1)>>],
             !.direction = <<0, 1>>,
             !.nextDirection = Null,
             !.activeDirectionKey = NoKey,
             !.holdTime = 0,
             !.sinceUpdate = Ticks(directionChangeDelay)] :
     len \in SpawnLengths}

getHead(g) == g.body[1]

\* Snake.move with the tail removed whether the snake eats or not.
move_alwaysPop(g, eatFood) ==
  LET dir == IF g.nextDirection # Null THEN g.nextDirection ELSE g.direction
      head == getHead(g)
      newHead == <<head[1] + dir[1], head[2] + dir[2]>>
      grown == <<newHead>> \o g.body
  IN [g EXCEPT !.direction = dir,
               !.nextDirection = Null,
               !.body = SubSeq(grown, 1, Len(grown) - 1),
               !.sinceUpdate = 0]

\* Snake.move with the new head put in the place of the old one when not
\* eating.
move_replacesHead(g, eatFood) ==
  LET dir == IF g.nextDirection # Null THEN g.nextDirection ELSE g.direction
      head == getHead(g)
      newHead == <<head[1] + dir[1], head[2] + dir[2]>>
  IN [g EXCEPT !.direction = dir,
               !.nextDirection = Null,
               !.body = <<newHead>> \o (IF eatFood THEN g.body ELSE Tail(g.body)),
               !.sinceUpdate = 0]

\* Snake.move with every segment shifted by the direction when not eating.
move_rigid(g, eatFood) ==
  LET dir == IF g.nextDirection # Null THEN g.nextDirection ELSE g.direction
      head == getHead(g)
      newHead == <<head[1] + dir[1], head[2] + dir[2]>>
      grown == <<newHead>> \o g.body
  IN [g EXCEPT !.direction = dir,
               !.nextDirection = Null,
               !.body = IF eatFood THEN grown
                        ELSE [i \in 1..Len(g.body) |->
                                <<g.body[i][1] + dir[1], g.body[i][2] + dir[2]>>],
               !.sinceUpdate = 0]

\* Snake.move
move(g, eatFood) ==
  LET dir == IF g.nextDirection # Null THEN g.nextDirection ELSE g.direction
      head == getHead(g)
      newHead == <<head[1] + dir[1], head[2] + dir[2]>>
      grown == <<newHead>> \o g.body
  IN [g EXCEPT !.direction = dir,
               !.nextDirection = Null,
               !.body = IF eatFood THEN grown
                        ELSE SubSeq(grown, 1, Len(grown) - 1),
               !.sinceUpdate = 0]

\* Snake.changeDirection with every new direction applied at once.
changeDirection_neverBuffered(g, newDir) ==
  IF newDir = Opposite(g.direction) THEN g
  ELSE IF newDir # g.direction THEN [g EXCEPT !.direction = newDir]
       ELSE g

\* Snake.changeDirection: the snake it leaves.
changeDirection(g, newDir) ==
  IF newDir = Opposite(g.direction) THEN g
  ELSE IF newDir # g.direction /\ g.sinceUpdate < Ticks(directionChangeDelay)
       THEN [g EXCEPT !.nextDirection = newDir]
       ELSE IF newDir # g.direction THEN [g EXCEPT !.direction = newDir]
            ELSE g

\* Snake.computeDelay with level - 1 in place of Math.min(level - 1, 9).
computeDelay_uncappedLevel(g, lvl) ==
  LET extraSegments == Len(g.body) - 1
      levelSpeedReduction == (lvl - 1) * LEVEL_STEP
      lengthSpeedReduction == extraSegments * SEGMENT_STEP
      baseDelay == Max(MIN_BASE_DELAY,
                       MOVE_DELAY - levelSpeedReduction - lengthSpeedReduction)
  IN IF g.activeDirectionKey # NoKey
     THEN Max(Ticks(MIN_HOLD_DELAY),
              Ticks(baseDelay)
                - ((baseDelay - FAST_MOVE_DELAY)
                     * Min(g.holdTime, Ticks(HOLD_SCALE))) \div HOLD_SCALE)
     ELSE Ticks(baseDelay)

\* Snake.computeDelay with no Math.max(60, ...) around the base delay.
computeDelay_noFloor(g, lvl) ==
  LET extraSegments == Len(g.body) - 1
      levelSpeedReduction == Min(lvl - 1, MAX_LEVEL_STEPS) * LEVEL_STEP
      lengthSpeedReduction == extraSegments * SEGMENT_STEP
      baseDelay == MOVE_DELAY - levelSpeedReduction - lengthSpeedReduction
  IN IF g.activeDirectionKey # NoKey
     THEN Max(Ticks(MIN_HOLD_DELAY),
              Ticks(baseDelay)
                - ((baseDelay - FAST_MOVE_DELAY)
                     * Min(g.holdTime, Ticks(HOLD_SCALE))) \div HOLD_SCALE)
     ELSE Ticks(baseDelay)

\* Snake.computeDelay, in ticks; factor = Min(holdTime, Ticks(HOLD_SCALE)) /
\* Ticks(HOLD_SCALE), and the division below is exact when holdTime is a
\* whole number of ms.
computeDelay(g, lvl) ==
  LET extraSegments == Len(g.body) - 1
      levelSpeedReduction == Min(lvl - 1, MAX_LEVEL_STEPS) * LEVEL_STEP
      lengthSpeedReduction == extraSegments * SEGMENT_STEP
      baseDelay == Max(MIN_BASE_DELAY,
                       MOVE_DELAY - levelSpeedReduction - lengthSpeedReduction)
  IN IF g.activeDirectionKey # NoKey
     THEN Max(Ticks(MIN_HOLD_DELAY),
              Ticks(baseDelay)
                - ((baseDelay - FAST_MOVE_DELAY)
                     * Min(g.holdTime, Ticks(HOLD_SCALE))) \div HOLD_SCALE)
     ELSE Ticks(baseDelay)

\* Snake.setActiveDirection restarting the hold at every call.
setActiveDirection_alwaysRestart(g, key) ==
  [g EXCEPT !.activeDirectionKey = key, !.holdTime = 0]

\* Snake.setActiveDirection
setActiveDirection(g, key) ==
  IF g.activeDirectionKey # key
  THEN [g EXCEPT !.activeDirectionKey = key, !.holdTime = 0]
  ELSE g

clearActiveDirection(g) ==
  [g EXCEPT !.activeDirectionKey = NoKey, !.holdTime = 0]

\* ------------------------------------------------------------------ Game
endGame(g) ==
  [Emit(g, "gameOver") EXCEPT !.gameOver = TRUE, !.gameOverShown = TRUE]

\* Game.reset: grid.reset() (which spawns food with no snake), snake.spawn(),
\* grid.spawnFood(snake).
reset(g) ==
  LET cleared == [g EXCEPT !.score = 0, !.level = 1, !.gameOver = FALSE,
                           !.paused = FALSE, !.staticBlocks = {},
                           !.landedBlocks = 0]
  IN UNION {UNION {spawnFood(s, TRUE) : s \in spawn(f)} :
              f \in spawnFood(cleared, FALSE)}

quitToMainMenu(g) ==
  reset([Emit(g, "showMainMenu") EXCEPT
           !.paused = FALSE, !.gameOver = FALSE,
           !.pausedShown = FALSE, !.gameOverShown = FALSE,
           !.mainMenuShown = TRUE])

\* Game.handleCollision as src/js/Game.js has it: a level every 50 blocks.
handleCollision_every50(g) ==
  LET locked == lockSnake(Emit(g, "collision"))
      cl == clearLines(locked.staticBlocks)
      scored == IF cl[2] > 0
                THEN [Emit(locked, "lineClear") EXCEPT
                        !.staticBlocks = cl[1], !.linesCleared = cl[2],
                        !.score = @ + cl[2] * LINE_SCORE * locked.level]
                ELSE [locked EXCEPT !.staticBlocks = cl[1],
                                    !.linesCleared = cl[2]]
      levelled == [scored EXCEPT !.level = 1 + (scored.landedBlocks \div 50)]
  IN {IF \E i \in 1..Len(s.body) : isStaticBlock(s, s.body[i][1], s.body[i][2])
      THEN endGame(s) ELSE s : s \in spawn(levelled)}

\* Game.handleCollision with the level recomputed before the score is added.
handleCollision_levelFirst(g) ==
  LET locked == lockSnake(Emit(g, "collision"))
      cl == clearLines(locked.staticBlocks)
      levelled == [locked EXCEPT
                     !.level = 1 + (locked.landedBlocks \div BLOCKS_PER_LEVEL)]
      scored == IF cl[2] > 0
                THEN [Emit(levelled, "lineClear") EXCEPT
                        !.staticBlocks = cl[1], !.linesCleared = cl[2],
                        !.score = @ + cl[2] * LINE_SCORE * levelled.level]
                ELSE [levelled EXCEPT !.staticBlocks = cl[1],
                                      !.linesCleared = cl[2]]
  IN {IF \E i \in 1..Len(s.body) : isStaticBlock(s, s.body[i][1], s.body[i][2])
      THEN endGame(s) ELSE s : s \in spawn(scored)}

\* Game.handleCollision ending the game only if every new segment overlaps.
handleCollision_everySegment(g) ==
  LET locked == lockSnake(Emit(g, "collision"))
      cl == clearLines(locked.staticBlocks)
      scored == IF cl[2] > 0
                THEN [Emit(locked, "lineClear") EXCEPT
                        !.staticBlocks = cl[1], !.linesCleared = cl[2],
                        !.score = @ + cl[2] * LINE_SCORE * locked.level]
                ELSE [locked EXCEPT !.staticBlocks = cl[1],
                                    !.linesCleared = cl[2]]
      levelled == [scored EXCEPT
                     !.level = 1 + (scored.landedBlocks \div BLOCKS_PER_LEVEL)]
  IN {IF \A i \in 1..Len(s.body) : isStaticBlock(s, s.body[i][1], s.body[i][2])
      THEN endGame(s) ELSE s : s \in spawn(levelled)}

\* Game.handleCollision
handleCollision(g) ==
  LET locked == lockSnake(Emit(g, "collision"))
      cl == clearLines(locked.staticBlocks)
      scored == IF cl[2] > 0
                THEN [Emit(locked, "lineClear") EXCEPT
                        !.staticBlocks = cl[1], !.linesCleared = cl[2],
                        !.score = @ + cl[2] * LINE_SCORE * locked.level]
                ELSE [locked EXCEPT !.staticBlocks = cl[1],
                                    !.linesCleared = cl[2]]
      levelled == [scored EXCEPT
                     !.level = 1 + (scored.landedBlocks \div BLOCKS_PER_LEVEL)]
  IN {IF \E i \in 1..Len(s.body) : isStaticBlock(s, s.body[i][1], s.body[i][2])
      THEN endGame(s) ELSE s : s \in spawn(levelled)}

\* Game.handleFoodEaten adding 10 whatever the level.
handleFoodEaten_flatScore(g) ==
  spawnFood([Emit(g, "eat") EXCEPT !.score = @ + FOOD_SCORE], TRUE)

\* Game.handleFoodEaten
handleFoodEaten(g) ==
  spawnFood([Emit(g, "eat") EXCEPT !.score = @ + g.level * FOOD_SCORE], TRUE)

\* Game.updateSnake
updateSnake(g) ==
  LET head == getHead(g)
      newHead == <<head[1] + g.direction[1], head[2] + g.direction[2]>>
      isEating == isSnakeEatingFood(g, newHead[1], newHead[2])
  IN IF isCollision(g, newHead[1], newHead[2])
     THEN handleCollision(Emit(g, "collision"))
     ELSE IF isCollidingWith(g, newHead[1], newHead[2], TRUE)
     THEN handleCollision(Emit(g, "collision"))
     ELSE IF isEating THEN handleFoodEaten(move(g, TRUE))
     ELSE {move(Emit(g, "move"), FALSE)}

\* Game.handleInput with the quit key honoured whether paused or not.
handleInput_quitUnpaused(g, p, q, key) ==
  LET toggled == IF p
                 THEN IF ~g.pausePressed
                      THEN [g EXCEPT !.paused = ~g.paused,
                                     !.pausedShown = ~g.paused,
                                     !.pausePressed = TRUE]
                      ELSE g
                 ELSE [g EXCEPT !.pausePressed = FALSE]
  IN IF q THEN quitToMainMenu(toggled)
     ELSE IF ~toggled.paused /\ ~toggled.gameOver
     THEN IF key # NoKey
          THEN {setActiveDirection(
                  changeDirection(toggled, directionMapping(key)), key)}
          ELSE {clearActiveDirection(toggled)}
     ELSE {toggled}

\* Game.handleInput with paused toggled in every frame that finds P down.
handleInput_noDebounce(g, p, q, key) ==
  LET toggled == IF p
                 THEN [g EXCEPT !.paused = ~g.paused,
                                !.pausedShown = ~g.paused,
                                !.pausePressed = TRUE]
                 ELSE [g EXCEPT !.pausePressed = FALSE]
  IN IF toggled.paused /\ q THEN quitToMainMenu(toggled)
     ELSE IF ~toggled.paused /\ ~toggled.gameOver
     THEN IF key # NoKey
          THEN {setActiveDirection(
                  changeDirection(toggled, directionMapping(key)), key)}
          ELSE {clearActiveDirection(toggled)}
     ELSE {toggled}

\* Game.handleInput; p, q and key are what isPausePressed, isQuitPressed and
\* getDirection return in this frame.
handleInput(g, p, q, key) ==
  LET toggled == IF p
                 THEN IF ~g.pausePressed
                      THEN [g EXCEPT !.paused = ~g.paused,
                                     !.pausedShown = ~g.paused,
                                     !.pausePressed = TRUE]
                      ELSE g
                 ELSE [g EXCEPT !.pausePressed = FALSE]
  IN IF toggled.paused /\ q THEN quitToMainMenu(toggled)
     ELSE IF ~toggled.paused /\ ~toggled.gameOver
     THEN IF key # NoKey
          THEN {setActiveDirection(
                  changeDirection(toggled, directionMapping(key)), key)}
          ELSE {clearActiveDirection(toggled)}
     ELSE {toggled}

\* The end of Game.gameLoop with the render not guarded by gameOver.
finishLoop_alwaysRender(g) ==
  LET r == IF g.hung THEN g ELSE Emit(g, "render")
  IN IF g.callbacksLeft > 0
     THEN [r EXCEPT !.pc = "callback", !.delay = 0]
     ELSE [r EXCEPT !.pc = "idle", !.delay = 0, !.inPause = FALSE,
                    !.inQuit = FALSE, !.inKey = NoKey]

\* The end of Game.gameLoop: render unless game over, requestAnimationFrame.
\* The callbacks of a display frame that are still to run come next.
finishLoop(g) ==
  LET r == IF g.hung \/ g.gameOver THEN g ELSE Emit(g, "render")
  IN IF g.callbacksLeft > 0
     THEN [r EXCEPT !.pc = "callback", !.delay = 0]
     ELSE [r EXCEPT !.pc = "idle", !.delay = 0, !.inPause = FALSE,
                    !.inQuit = FALSE, !.inKey = NoKey]

\* Game.gameLoop with updateGame not adding delta to the accumulator.
enterLoop_dropsDelta(g, delta, p, q, key) ==
  {IF h.hung THEN h
   ELSE IF ~h.paused /\ ~h.gameOver
   THEN [h EXCEPT !.delay = computeDelay(h, h.level),
                  !.pc = "loop"]
   ELSE finishLoop(h) : h \in handleInput(Emit(g, "input"), p, q, key)}

\* Game.gameLoop from its first line to the while loop of Game.updateGame.
enterLoop(g, delta, p, q, key) ==
  {IF h.hung THEN h
   ELSE IF ~h.paused /\ ~h.gameOver
   THEN [h EXCEPT !.accumulator = @ + delta,
                  !.delay = computeDelay(h, h.level),
                  !.pc = "loop"]
   ELSE finishLoop(h) : h \in handleInput(Emit(g, "input"), p, q, key)}

\* The clock advances by delta between two display frames.
Elapse(g, delta) ==
  [g EXCEPT !.sinceUpdate = Min(@ + delta, Ticks(directionChangeDelay)),
            !.holdTime = IF g.activeDirectionKey # NoKey
                         THEN Min(@ + delta, Ticks(HOLD_SCALE)) ELSE 0]

\* Game.start, up to the while loop of the gameLoop call it makes.
start(g, p, q, key) ==
  UNION {enterLoop([r EXCEPT !.loops = @ + 1], 0, p, q, key) : r \in reset(g)}

\* --------------------------------------------------------------- actions
Constructed ==
  [body |-> << >>,
   direction |-> <<0, 1>>,
   nextDirection |-> Null,
   activeDirectionKey |-> NoKey,
   holdTime |-> 0,
   sinceUpdate |-> Ticks(directionChangeDelay),
   staticBlocks |-> {},
   food |-> <<0, 0>>,
   landedBlocks |-> 0,
   score |-> 0,
   level |-> 1,
   gameOver |-> FALSE,
   paused |-> FALSE,
   pausePressed |-> FALSE,
   accumulator |-> 0,
   mainMenuShown |-> TRUE,
   pausedShown |-> FALSE,
   gameOverShown |-> FALSE,
   loops |-> 0,
   hung |-> FALSE,
   events |-> << >>,
   pc |-> "idle",
   delay |-> 0,
   callbacksLeft |-> 0,
   inPause |-> FALSE,
   inQuit |-> FALSE,
   inKey |-> NoKey,
   linesCleared |-> 0]

\* The state is the record g.
Is(g) ==
  /\ body = g.body
  /\ direction = g.direction
  /\ nextDirection = g.nextDirection
  /\ activeDirectionKey = g.activeDirectionKey
  /\ holdTime = g.holdTime
  /\ sinceUpdate = g.sinceUpdate
  /\ staticBlocks = g.staticBlocks
  /\ food = g.food
  /\ landedBlocks = g.landedBlocks
  /\ score = g.score
  /\ level = g.level
  /\ gameOver = g.gameOver
  /\ paused = g.paused
  /\ pausePressed = g.pausePressed
  /\ accumulator = g.accumulator
  /\ mainMenuShown = g.mainMenuShown
  /\ pausedShown = g.pausedShown
  /\ gameOverShown = g.gameOverShown
  /\ loops = g.loops
  /\ hung = g.hung
  /\ events = g.events
  /\ pc = g.pc
  /\ delay = g.delay
  /\ callbacksLeft = g.callbacksLeft
  /\ inPause = g.inPause
  /\ inQuit = g.inQuit
  /\ inKey = g.inKey
  /\ linesCleared = g.linesCleared

Init == Is(Constructed)

Idle == pc = "idle" /\ ~hung

\* A session late in level 1: LateRows rows have been cleared by locks that
\* each completed one row of an empty field (a snake as long as the row is
\* wide lying on the floor, or several shorter ones side by side), no food
\* was eaten, and the field is empty again.  Cleared rows leave landedBlocks
\* and score behind: GRID_WIDTH blocks and, at level 1, LINE_SCORE a row.
\* LateRows is the last such state of level 1; one more row is level 2.
LateRows == (BLOCKS_PER_LEVEL - 1) \div GRID_WIDTH
SessionRows == {0, LateRows, LateRows + 1}

InSession ==
  \E rows \in SessionRows :
    /\ landedBlocks >= rows * GRID_WIDTH
    /\ landedBlocks < rows * GRID_WIDTH + MaxLanded
    /\ score >= rows * LINE_SCORE
    /\ score < rows * LINE_SCORE + MaxScore

AnyKey == DirectionKeys \cup {NoKey}

\* click on startButton; P, Q and K are the key states the environment can
\* present.
ClickStart(P, Q, K) ==
  /\ Idle /\ mainMenuShown /\ loops < MaxLoops
  /\ \E p \in P, q \in Q, key \in K :
       \E g \in start([Cur EXCEPT !.mainMenuShown = FALSE], p, q, key) :
         Becomes(g)

\* click on restartButton
ClickRestart ==
  /\ Idle /\ gameOverShown
  /\ \E g \in reset([Cur EXCEPT !.gameOverShown = FALSE]) : Becomes(g)

\* click on resumeButton
ClickResume ==
  /\ Idle /\ pausedShown
  /\ Becomes([Cur EXCEPT !.paused = FALSE, !.pausedShown = FALSE])

\* click on quitButton
ClickQuit ==
  /\ Idle /\ pausedShown
  /\ \E g \in quitToMainMenu(Cur) : Becomes(g)

\* The deltas of the frames the model takes: a short frame, or a long frame
\* that brings the accumulator to one delay or to two delays of a snake with
\* no key held.
FrameDeltas ==
  {Ticks(ShortFrame)} \cup
  {d \in {k * computeDelay([Cur EXCEPT !.activeDirectionKey = NoKey], level)
             - accumulator : k \in {1, 2}} : d > Ticks(ShortFrame)}

\* Short frames come only while the last move is less than
\* directionChangeDelay ago (a request in the first is buffered, one in the
\* next is applied at once), and a direction key stays held over one short
\* frame at most.
FrameAllowed(delta, key) ==
  /\ delta = Ticks(ShortFrame) => sinceUpdate < Ticks(directionChangeDelay)
  /\ (key # NoKey /\ key = activeDirectionKey) =>
       (delta = Ticks(ShortFrame) /\ holdTime = 0)

\* A display frame: the first pending gameLoop callback, up to the loop.
DisplayFrame(P, Q, K) ==
  /\ Idle /\ loops >= 1
  /\ \E delta \in FrameDeltas, p \in P, q \in Q, key \in K :
       /\ FrameAllowed(delta, key)
       /\ \E g \in enterLoop(
                     [Elapse(Cur, delta) EXCEPT
                        !.callbacksLeft = loops - 1,
                        !.inPause = IF loops > 1 THEN p ELSE FALSE,
                        !.inQuit = IF loops > 1 THEN q ELSE FALSE,
                        !.inKey = IF loops > 1 THEN key ELSE NoKey],
                     delta, p, q, key) :
            Becomes(g)

\* A display frame within the caps on the counters of a session.
Frame(P, Q, K) ==
  /\ InSession \/ gameOver
  /\ DisplayFrame(P, Q, K)

\* Another pending gameLoop callback of the same display frame: same
\* timestamp, so its delta is 0.
NextCallback ==
  /\ pc = "callback" /\ ~hung
  /\ \E g \in enterLoop([Cur EXCEPT !.callbacksLeft = @ - 1],
                        0, inPause, inQuit, inKey) :
       Becomes(g)

\* One iteration of the while loop of Game.updateGame.
UpdateSnake ==
  /\ pc = "loop" /\ ~hung
  /\ accumulator >= delay
  /\ \E g \in updateSnake([Cur EXCEPT !.accumulator = @ - delay]) : Becomes(g)

\* The loop condition fails: the rest of Game.gameLoop.
ExitLoop ==
  /\ pc = "loop" /\ ~hung
  /\ accumulator < delay
  /\ Becomes(finishLoop(Cur))

\* Play: one start, frames with direction keys, P and Q never pressed.
NextPlay ==
  \/ ClickStart({FALSE}, {FALSE}, AnyKey)
  \/ Frame({FALSE}, {FALSE}, AnyKey)
  \/ UpdateSnake
  \/ ExitLoop

SpecPlay == Init /\ [][NextPlay]_vars

\* Play late in level 1 and early in level 2: the states Play reaches from
\* Init, and the same play after LateRows or LateRows + 1 cleared rows.
InitLate ==
  \/ Init
  \/ \E rows \in SessionRows \ {0} :
       \E g \in reset([Constructed EXCEPT !.mainMenuShown = FALSE,
                                          !.loops = 1]) :
         Is([g EXCEPT !.landedBlocks = rows * GRID_WIDTH,
                      !.score = rows * LINE_SCORE,
                      !.level = 1 + (rows * GRID_WIDTH) \div BLOCKS_PER_LEVEL])

SpecLate == InitLate /\ [][NextPlay]_vars

\* Menus: every button and P and Q, with no direction key pressed.
NextMenu ==
  \/ ClickStart(BOOLEAN, BOOLEAN, {NoKey})
  \/ ClickRestart
  \/ ClickResume
  \/ ClickQuit
  \/ Frame(BOOLEAN, BOOLEAN, {NoKey})
  \/ NextCallback
  \/ UpdateSnake
  \/ ExitLoop

SpecMenu == Init /\ [][NextMenu]_vars

\* ------------------------------------------------------------ properties
Range(s) == {s[i] : i \in 1..Len(s)}

InGrid(c) ==
  c[1] >= 0 /\ c[1] < GRID_WIDTH /\ c[2] >= 0 /\ c[2] < GRID_HEIGHT

\* A game is running: Game.start has run and the session has not ended.
Active == loops >= 1 /\ ~gameOver /\ ~hung

\* The next step is an iteration of the while loop of Game.updateGame, that
\* is one call of Game.updateSnake: a movement step.
AtStep == pc = "loop" /\ ~hung /\ accumulator >= delay

\* What the step just taken did: the sounds of a lock, of a line clear.
Locked == "collision" \in Range(events)
LockedNext == "collision" \in Range(events')

\* C1: in every reachable state every static block is a cell of the grid,
\* 0 <= x < GRID_WIDTH and 0 <= y < GRID_HEIGHT (a set holds no cell twice);
\* lockSnake never makes a static block of a segment above the grid.
C1_StaticBlocksInGrid == \A c \in staticBlocks : InGrid(c)

\* C2: while a game is active the food cell is not a static block and is not
\* a cell of any snake segment, the head included.
C2_FoodCellFree ==
  Active => food \notin staticBlocks /\ food \notin Range(body)

\* C3: every change of Snake.direction made by changeDirection or by move()
\* (a respawn, which points the new snake down, is not one) sets a direction
\* that is not the opposite of the one held just before; a request for the
\* opposite changes neither direction nor nextDirection.
C3_NoReversal ==
  [][(direction' # direction /\ ~LockedNext /\ loops' = loops)
       => direction' # Opposite(direction)]_vars

\* The cell Game.updateSnake tests: head + direction.
ProspectiveHead == <<body[1][1] + direction[1], body[1][2] + direction[2]>>

\* The cell is outside the grid, a static block, or the cell of a segment
\* that is neither the head nor the tail.
Blocked ==
  \/ ~InGrid(ProspectiveHead)
  \/ ProspectiveHead \in staticBlocks
  \/ \E i \in 2..(Len(body) - 1) : body[i] = ProspectiveHead

UnitSteps == {<<0, 1>>, <<0, -1>>, <<1, 0>>, <<-1, 0>>}

\* The step moved the snake one cell: a new head next to the old one, every
\* other segment in the cell of the one before it, nothing locked.
Advanced ==
  /\ Len(body') \in {Len(body), Len(body) + 1}
  /\ <<body'[1][1] - body[1][1], body'[1][2] - body[1][2]>> \in UnitSteps
  /\ \A i \in 2..Len(body') : body'[i] = body[i - 1]
  /\ staticBlocks' = staticBlocks
  /\ landedBlocks' = landedBlocks
  /\ ~LockedNext

\* The step locked the snake and spawned a new one in its start cells.
LockedAndRespawned ==
  /\ LockedNext
  /\ landedBlocks' > landedBlocks
  /\ Len(body') \in SpawnLengths
  /\ \A i \in 1..Len(body') : body'[i] = <<GRID_WIDTH \div 2, 1 - i>>
  /\ direction' = <<0, 1>>

\* C4: a movement step locks and respawns, and does not move the snake, if
\* and only if head + direction is out of bounds, a static block, or a body
\* segment other than head and tail; otherwise the snake advances by exactly
\* one cell and nothing is locked.
C4_LockIffBlocked ==
  [][AtStep => IF Blocked THEN LockedAndRespawned ELSE Advanced]_vars

\* A snake of three or more segments has just been locked by a step, and the
\* game goes on.
C4_Witness ==
  /\ Locked /\ ~gameOver
  /\ landedBlocks >= 3
  /\ pc = "loop"

FullRows(blocks) ==
  {y \in 0..(GRID_HEIGHT - 1) :
     \A x \in 0..(GRID_WIDTH - 1) : <<x, y>> \in blocks}

\* The blocks of the field once the snake is locked into it.
LockedField == staticBlocks \cup Range(body)

\* C6: a lock that clears n >= 1 rows (n is what Grid.clearLines returns to
\* it) adds n * 50 * level to score, level being the value before this lock
\* recomputes it; a lock that clears no row leaves score unchanged; the
\* increment does not depend on the score so far.
C6_LineScore ==
  [][(AtStep /\ LockedNext) =>
       /\ score' = score + linesCleared' * LINE_SCORE * level
       /\ ("lineClear" \in Range(events')) <=> (linesCleared' >= 1)
       /\ (Cardinality(staticBlocks') < Cardinality(LockedField))
            <=> (linesCleared' >= 1)]_vars

\* A lock has just cleared a row and raised the level from 1 to 2.
C6_Witness ==
  /\ Locked /\ "lineClear" \in Range(events)
  /\ landedBlocks = BLOCKS_PER_LEVEL /\ level = 2

\* The number of full rows below row y in a field of blocks.
ClearedBelow(blocks, y) == Cardinality({r \in FullRows(blocks) : r > y})

\* C7: Grid.clearLines, called by a lock, returns the number of rows of the
\* grid that were full when it was called, removes exactly those rows, moves
\* every other block down by the number of cleared rows below it with x
\* unchanged, and so reduces the number of static blocks by GRID_WIDTH times
\* the value it returns.
C7_ClearLines ==
  [][(AtStep /\ LockedNext) =>
       /\ linesCleared' = Cardinality(FullRows(LockedField))
       /\ staticBlocks' =
            {<<c[1], c[2] + ClearedBelow(LockedField, c[2])>> :
               c \in {b \in LockedField :
                        ~(InGrid(b) /\ b[2] \in FullRows(LockedField))}}
       /\ Cardinality(staticBlocks') =
            Cardinality(LockedField) - GRID_WIDTH * linesCleared']_vars

\* Some segment of the snake lies on a static block.
Overlap == \E i \in 1..Len(body) : body[i] \in staticBlocks

C9_NoStepAfterGameOver ==
  [][(gameOver /\ gameOver') =>
       /\ UNCHANGED <<body, direction, food, staticBlocks, landedBlocks,
                      score, level>>
       /\ "gameOver" \notin Range(events')]_vars

\* C10: after quitToMainMenu, while the main menu is shown, no movement step
\* runs: snake, grid, score and level stay unchanged until start is pressed.
C10_NoStepInMainMenu ==
  [][(mainMenuShown /\ AtStep) =>
       UNCHANGED <<body, staticBlocks, landedBlocks, score, level>>]_vars

\* C11: while paused is true every frame leaves the snake body, direction,
\* static blocks, food, landedBlocks, score, level and the accumulator as
\* they are, and the time that passes while paused (the time before a frame
\* that starts with paused true) is never added to the accumulator.
C11_PausedFrozen ==
  [][/\ (paused /\ paused' /\ loops' = loops) =>
          UNCHANGED <<body, direction, staticBlocks, food, landedBlocks,
                      score, level, accumulator>>
     /\ (paused /\ pc = "idle") => accumulator' = accumulator]_vars

\* The step is a call of Game.gameLoop up to the end of handleInput.
InputSampled == "input" \in Range(events')

\* handleInput called quitToMainMenu in this step.
QuitHonoured == InputSampled /\ "showMainMenu" \in Range(events')

\* paused as the quit test of this step's handleInput found it: the value
\* before the step (false after the reset of Game.start), inverted if this
\* step's handleInput toggled it (P down in this frame and not in the last).
PausedAfterToggle ==
  (paused /\ loops' = loops) # (pausePressed' /\ ~pausePressed)

\* The session as Game.reset leaves it.
SessionReset ==
  /\ score = 0 /\ level = 1
  /\ staticBlocks = {} /\ landedBlocks = 0
  /\ ~paused /\ ~gameOver
  /\ Len(body) \in SpawnLengths
  /\ \A i \in 1..Len(body) : body[i] = <<GRID_WIDTH \div 2, 1 - i>>
  /\ direction = <<0, 1>> /\ nextDirection = Null
  /\ InGrid(food) /\ food \notin Range(body)

\* C12: the quit key is honoured only in a frame where paused is true after
\* that frame's pause toggle, and then the session is reset (score 0, level
\* 1, empty field, landedBlocks 0, not paused, not game over, a fresh snake
\* and a food cell not on it); in a frame where paused is false after the
\* toggle, Q pressed or not, handleInput resets nothing.
C12_QuitOnlyWhilePaused ==
  [][InputSampled =>
       /\ QuitHonoured => (PausedAfterToggle /\ SessionReset' /\ mainMenuShown')
       /\ ~PausedAfterToggle =>
            /\ ~QuitHonoured
            /\ loops' = loops =>
                 UNCHANGED <<body, direction, staticBlocks, food, landedBlocks,
                             score, level, gameOver, mainMenuShown>>]_vars

\* The Q key has just quit a paused game: the frame has sampled the input,
\* shown the main menu and reset the session.
C12_Witness ==
  /\ "input" \in Range(events) /\ "showMainMenu" \in Range(events)
  /\ mainMenuShown /\ SessionReset /\ loops = 1 /\ pc = "loop"

\* The cell Game.updateSnake tests is the food cell.
OnFood == ProspectiveHead = food

\* C13: a movement step whose new head cell is the food cell grows the snake
\* by exactly one segment, adds exactly level * 10 to score and respawns the
\* food on a cell that avoids the whole new snake body; a movement step whose
\* new head cell is not the food cell changes neither the body length, the
\* score nor the food.
C13_EatGrowsScoresRespawns ==
  [][(AtStep /\ ~LockedNext /\ ~hung') =>
       IF OnFood
       THEN /\ Len(body') = Len(body) + 1
            /\ score' = score + level * FOOD_SCORE
            /\ food' \notin Range(body')
       ELSE /\ Len(body') = Len(body)
            /\ score' = score
            /\ food' = food]_vars

\* The direction Snake.move moves in: the buffered one if there is one.
MoveDirection == IF nextDirection # Null THEN nextDirection ELSE direction

\* Game.updateSnake called Snake.move with ateFood true in this step.
AteNext == "eat" \in Range(events')

\* C14: Snake.move(ateFood) applies and clears any buffered direction, puts
\* the new head at old head + direction in front of the old segments, makes
\* the body one longer when ateFood is true and keeps its length when ateFood
\* is false; the head of the body is the cell it returns.
C14_Move ==
  [][(AtStep /\ ~LockedNext) =>
       /\ direction' = MoveDirection
       /\ nextDirection' = Null
       /\ getHead([body |-> body']) =
            <<body[1][1] + MoveDirection[1], body[1][2] + MoveDirection[2]>>
       /\ Len(body') = Len(body) + (IF AteNext THEN 1 ELSE 0)
       /\ \A i \in 2..Len(body') : body'[i] = body[i - 1]]_vars

\* The snake has just eaten in a step that moved it sideways.
C14_Witness ==
  /\ "eat" \in Range(events)
  /\ Len(body) >= 2
  /\ body[1][1] # body[2][1]

\* ------------------------------------------------- Grid.spawnFood alone
\* The calls of Grid.spawnFood(snake), one iteration of its do-while at a
\* time, for the fields and snakes of the bounds below.
\* A snake has at most MaxPath segments.
MaxPath == 4

GridCells == (0..(GRID_WIDTH - 1)) \X (0..(GRID_HEIGHT - 1))

\* The fields Grid.clearLines leaves: no row of the grid is full.
Fields ==
  {b \in SUBSET GridCells : \A y \in 0..(GRID_HEIGHT - 1) : ~isLineFull(b, y)}

\* The snakes: each segment one unit step from the one before it, no cell
\* twice.
Paths ==
  UNION {{p \in [1..n -> GridCells] :
            /\ \A i \in 2..n :
                 <<p[i][1] - p[i - 1][1], p[i][2] - p[i - 1][2]>> \in UnitSteps
            /\ \A i, j \in 1..n : p[i] = p[j] => i = j} :
         n \in 1..MaxPath}

\* Grid.spawnFood(snake) has been called and has not drawn yet.
InitFood ==
  \E b \in Fields, p \in Paths :
    /\ Range(p) \cap b = {}
    /\ Is([Constructed EXCEPT !.staticBlocks = b, !.body = p,
                              !.mainMenuShown = FALSE, !.loops = 1,
                              !.pc = "spawnFood"])

\* The cells the two Math.random() calls of one iteration can give.
DrawCells == (0..(GRID_WIDTH - 1)) \X (1..(GRID_HEIGHT - 1))

\* One iteration of the do-while whose cell fails the while condition: the
\* loop ends with this.food on an acceptable cell.
DrawAccepted ==
  /\ pc = "spawnFood"
  /\ \E g \in spawnFood(Cur, TRUE) :
       /\ ~g.hung
       /\ Becomes([g EXCEPT !.pc = "idle"])

\* One iteration whose cell is a static block or a segment isCollidingWith
\* reports: the loop goes on.
DrawRejected ==
  /\ pc = "spawnFood"
  /\ \E c \in DrawCells \ FoodCells(Cur, TRUE) :
       Becomes([Cur EXCEPT !.food = c])

NextFood == DrawAccepted \/ DrawRejected

SpecFood == InitFood /\ [][NextFood]_vars

\* Math.random gives every cell with positive probability, so a loop that
\* has an acceptable cell does not draw rejected cells for ever.
SpecFoodFair == SpecFood /\ WF_vars(DrawAccepted)

\* Some cell of the grid is neither a static block nor a snake segment.
FreeCellExists ==
  \E c \in GridCells : c \notin staticBlocks /\ c \notin Range(body)

\* C15: Grid.spawnFood terminates whenever at least one cell of the grid is
\* neither a static block nor occupied by a snake segment, in whichever rows
\* the free cells are.
C15_SpawnFoodTerminates ==
  (pc = "spawnFood" /\ FreeCellExists) ~> (pc = "idle")

\* C16: the cells Grid.spawnFood can select are exactly the cells of the grid,
\* the top row included, that are neither static blocks nor occupied by any
\* segment of the snake.
C16_FoodCellSet ==
  pc = "spawnFood" =>
    FoodCells(Cur, TRUE) =
      {c \in GridCells : c \notin staticBlocks /\ c \notin Range(body)}

\* --------------------------------------------- Snake.computeDelay alone
\* The calls of Snake.computeDelay(level) for snakes of 1..MaxSegments
\* segments, levels 1..MaxLevel, no key held or a key held for one of the
\* hold times below.
MaxSegments == 18
MaxLevel == 12
\* HOLD_SCALE is cut in HoldSteps steps.
HoldSteps == 20

\* The hold times, in ticks: from 0 to a little over HOLD_SCALE ms.
HoldTimes == {(k * Ticks(HOLD_SCALE)) \div HoldSteps : k \in 0..(HoldSteps + 2)}

\* A snake of n segments, as Snake.spawn lays it out.
Column(n) == [i \in 1..n |-> <<GRID_WIDTH \div 2, 1 - i>>]

\* Snake.computeDelay(level) has been called.
InitDelay ==
  \E n \in 1..MaxSegments, lvl \in 1..MaxLevel, key \in AnyKey,
     held \in HoldTimes :
    /\ key = NoKey => held = 0
    /\ Is([Constructed EXCEPT !.body = Column(n), !.level = lvl,
                              !.activeDirectionKey = key, !.holdTime = held,
                              !.mainMenuShown = FALSE, !.loops = 1,
                              !.pc = "computeDelay"])

\* The call returns: Game.updateGame keeps the value in delay.
ComputeDelay ==
  /\ pc = "computeDelay"
  /\ Becomes([Cur EXCEPT !.delay = computeDelay(Cur, level), !.pc = "idle"])

SpecDelay == InitDelay /\ [][ComputeDelay]_vars

\* Snake.computeDelay has returned the value in delay.
Computed == pc = "idle" /\ loops = 1 /\ delay > 0

\* C17: with no key held Snake.computeDelay(level) is
\* max(60, MOVE_DELAY - 20 * min(level - 1, 9) - 20 * (body length - 1)) for
\* every level >= 1 and every body length >= 1; level 1 and a body of one
\* segment give exactly MOVE_DELAY.
C17_DelayFormula ==
  (Computed /\ activeDirectionKey = NoKey) =>
    /\ delay = Ticks(Max(MIN_BASE_DELAY,
                         MOVE_DELAY - LEVEL_STEP * Min(level - 1, MAX_LEVEL_STEPS)
                           - SEGMENT_STEP * (Len(body) - 1)))
    /\ (level = 1 /\ Len(body) = 1) => delay = Ticks(MOVE_DELAY)

\* The delay of a snake of one segment at level 1 with no key held has been
\* computed.
C17_Witness ==
  /\ Computed /\ activeDirectionKey = NoKey
  /\ level = 1 /\ Len(body) = 1
  /\ delay = Ticks(MOVE_DELAY)

\* The snake with one segment more.
Longer == [Cur EXCEPT !.body = Column(Len(body) + 1)]

\* C18: Snake.computeDelay does not increase when the level increases or
\* when the body gets longer, all else equal; levels above 10 give the value
\* of level 10; the value is never below 60 ms with no key held and never
\* below 40 ms with a key held, whatever the hold time.
C18_DelayMonotoneAndFloored ==
  Computed =>
    /\ computeDelay(Cur, level + 1) <= delay
    /\ computeDelay(Longer, level) <= delay
    /\ level >= MAX_LEVEL_STEPS + 1 =>
         delay = computeDelay(Cur, MAX_LEVEL_STEPS + 1)
    /\ activeDirectionKey = NoKey => delay >= Ticks(MIN_BASE_DELAY)
    /\ activeDirectionKey # NoKey => delay >= Ticks(MIN_HOLD_DELAY)

\* The delay of a long snake above level 10 with a key held for the whole of
\* HOLD_SCALE has been computed: it is down at FAST_MOVE_DELAY.
C18_Witness ==
  /\ Computed /\ activeDirectionKey # NoKey
  /\ holdTime >= Ticks(HOLD_SCALE)
  /\ level > MAX_LEVEL_STEPS + 1 /\ Len(body) > MAX_SPAWN_LEN
  /\ delay = Ticks(FAST_MOVE_DELAY)

\* The renders the step just taken requested.
Renders(evs) == {i \in 1..Len(evs) : evs[i] = "render"}

\* C19: in every call of gameLoop the input is sampled first, then come all
\* the movement steps of the frame, then at most one render: the loop of
\* movement steps is entered only by a step that has sampled the input and
\* not rendered, a movement step neither samples input nor renders, a render
\* is the last thing of the call, after the loop or in a call that runs no
\* loop, and no render is requested when gameOver is true.
C19_FrameOrder ==
  [][/\ (pc # "loop" /\ pc' = "loop") =>
          (events'[1] = "input" /\ Renders(events') = {})
     /\ AtStep =>
          (pc' = "loop" /\ "input" \notin Range(events')
                        /\ Renders(events') = {})
     /\ Renders(events') # {} =>
          /\ Renders(events') = {Len(events')}
          /\ pc' # "loop"
          /\ ~gameOver'
          /\ \/ pc = "loop" /\ accumulator < delay
             \/ pc # "loop" /\ events'[1] = "input"
     /\ (pc # "loop" /\ pc' # "loop" /\ InputSampled) =>
          (events'[1] = "input" /\ (Renders(events') = {} <=> gameOver'))]_vars

\* A frame has just rendered after a movement step of the same frame.
C19_Witness ==
  /\ pc = "idle" /\ loops >= 1
  /\ events = <<"render">>
  /\ sinceUpdate = 0

\* -------------------------------------------- whole frames as functions
\* The while loop of Game.updateGame from state g on, with the draws of
\* Math.random a fixed function of the state they are made in: the state it
\* leaves and the number of calls of updateSnake, n counting those so far.
RECURSIVE updateGameLoop(_, _, _)

updateGameLoop(g, dly, n) ==
  IF g.hung \/ g.accumulator < dly THEN <<g, n>>
  ELSE updateGameLoop(
         CHOOSE h \in updateSnake([g EXCEPT !.accumulator = @ - dly]) : TRUE,
         dly, n + 1)

\* One call of Game.gameLoop, delta after the one before, with P and Q up
\* and key as the direction key: the state it leaves and the number of
\* movement steps it made.
gameLoop(g, delta, key) ==
  LET h == CHOOSE x \in enterLoop(Elapse(g, delta), delta, FALSE, FALSE, key) :
             TRUE
      r == updateGameLoop(h, h.delay, 0)
  IN IF h.pc = "loop" THEN <<finishLoop(r[1]), r[2]>> ELSE <<h, 0>>

\* The movement steps of the frames with the given deltas, one after the
\* other, from state g on.
RECURSIVE StepsIn(_, _, _)

StepsIn(g, deltas, key) ==
  IF deltas = << >> THEN 0
  ELSE LET r == gameLoop(g, Head(deltas), key)
       IN r[2] + StepsIn(r[1], Tail(deltas), key)

\* The deltas a time is split in: the delay of a snake of one segment and of
\* a snake of two at level 1.
SplitDeltas == {Ticks(MOVE_DELAY), Ticks(MOVE_DELAY - SEGMENT_STEP)}

\* A game is running and no gameLoop call is under way.
Playing == Idle /\ loops = 1 /\ ~gameOver /\ ~paused

\* C20: from the same state and with the same input (no key held, the same
\* draws), the number of movement steps made in an elapsed time T is the same
\* whether T passes in one frame or is split over two.
C20_StepsIndependentOfSplit ==
  Playing =>
    \A d1 \in SplitDeltas, d2 \in SplitDeltas :
      StepsIn(Cur, <<d1 + d2>>, NoKey) = StepsIn(Cur, <<d1, d2>>, NoKey)

\* C21: in every movement step that moves the snake, the cell the head enters
\* (computed in Snake.move after a buffered direction is applied) is the cell
\* Game.updateSnake tested for collision and for food in that step, also when
\* a buffered nextDirection is pending.
C21_EnteredCellIsTestedCell ==
  [][(AtStep /\ ~LockedNext) => getHead([body |-> body']) = ProspectiveHead]_vars

\* C22: while gameOver is false the snake head is inside the grid and no
\* snake segment is on a static block, after any sequence of frames and
\* direction inputs.
C22_HeadInGridOffBlocks ==
  (loops >= 1 /\ ~gameOver /\ ~hung) => (InGrid(body[1]) /\ ~Overlap)

\* The direction the last movement step of this snake moved in, as the body
\* shows it: from the neck to the head.
LastStepDirection == <<body[1][1] - body[2][1], body[1][2] - body[2][2]>>

\* C23: the direction a movement step moves in is never the exact opposite of
\* the direction the same snake's previous movement step moved in, whatever
\* direction requests arrive between the two steps: the head never steps
\* back onto its neck.
C23_NoStepBack ==
  [][(AtStep /\ ~LockedNext /\ Len(body) >= 2) =>
       /\ direction' # Opposite(LastStepDirection)
       /\ getHead([body |-> body']) # body[2]]_vars

\* The step is the handleInput of a frame of a running game that sampled a
\* direction key: it called changeDirection with RequestedNext.
DirectionSampled ==
  /\ pc # "loop" /\ pc' = "loop" /\ loops' = loops
  /\ activeDirectionKey' # NoKey

RequestedNext == directionMapping(activeDirectionKey')

\* changeDirection returned true: the request is neither the opposite of the
\* current direction nor the current direction.
AcceptedNext ==
  /\ DirectionSampled
  /\ RequestedNext # Opposite(direction)
  /\ RequestedNext # direction

\* C24: the pending-direction slot holds at most one value and every later
\* accepted request overwrites it: after changeDirection returns true for
\* direction d, the direction in effect at the next move() (the buffered one
\* if there is one, else the current one) is d, never an older buffered
\* direction.
C24_LastAcceptedRequestWins ==
  [][AcceptedNext =>
       (IF nextDirection' # Null THEN nextDirection' ELSE direction')
         = RequestedNext]_vars

\* ------------------------------------------- Snake.changeDirection alone
\* Snake.changeDirection: the value it returns.
changeDirectionReturns(g, newDir) ==
  LET isNewDirection == newDir # g.direction
  IN IF newDir = Opposite(g.direction) THEN FALSE
     ELSE IF isNewDirection /\ g.sinceUpdate < Ticks(directionChangeDelay)
          THEN TRUE
          ELSE isNewDirection

\* The times since the last move, in ticks: every ms up to
\* directionChangeDelay, where the model saturates it.
SinceTimes == {Ticks(ms) : ms \in 0..directionChangeDelay}

\* Snake.changeDirection(directionMapping[inKey]) has been called, with any
\* direction, any buffered direction or none, any time since the last move.
InitTurn ==
  \E d \in UnitSteps, nd \in UnitSteps \cup {Null}, since \in SinceTimes,
     key \in DirectionKeys :
    Is([Constructed EXCEPT !.body = Column(1), !.direction = d,
                           !.nextDirection = nd, !.sinceUpdate = since,
                           !.inKey = key, !.mainMenuShown = FALSE,
                           !.loops = 1, !.pc = "changeDirection"])

\* The call returns.
ChangeDirection ==
  /\ pc = "changeDirection"
  /\ Becomes([changeDirection(Cur, directionMapping(inKey)) EXCEPT
                !.pc = "idle"])

SpecTurn == InitTurn /\ [][ChangeDirection]_vars

\* C25: Snake.changeDirection(newDir) returns false and changes nothing when
\* newDir is the exact opposite of or equal to the current direction;
\* otherwise it returns true and, less than 16 ms after the last move, only
\* stores newDir in nextDirection (direction unchanged), and 16 ms or more
\* after it sets direction to newDir at once.
C25_ChangeDirection ==
  [][pc = "changeDirection" =>
       LET newDir == directionMapping(inKey)
       IN IF newDir = Opposite(direction) \/ newDir = direction
          THEN /\ ~changeDirectionReturns(Cur, newDir)
               /\ UNCHANGED <<direction, nextDirection, body, sinceUpdate>>
          ELSE /\ changeDirectionReturns(Cur, newDir)
               /\ IF sinceUpdate < Ticks(directionChangeDelay)
                  THEN nextDirection' = newDir /\ direction' = direction
                  ELSE direction' = newDir]_vars

\* A quarter turn requested less than 16 ms after the last move has been
\* buffered: the call has returned with the request in nextDirection and the
\* direction as it was.
C25_Witness ==
  /\ pc = "idle" /\ inKey # NoKey /\ loops = 1
  /\ sinceUpdate < Ticks(directionChangeDelay)
  /\ nextDirection = directionMapping(inKey)
  /\ direction # nextDirection /\ direction # Opposite(nextDirection)

\* The frames whose return is looked at: one frame as long as two of
\* SplitDeltas.
LongFrames == {d1 + d2 : d1 \in SplitDeltas, d2 \in SplitDeltas}

\* C26: when updateGame returns in a frame that was neither paused nor game
\* over, 0 <= accumulator < computeDelay(level) on the state at the return:
\* the loop tests the delay of the level and body length it has after every
\* movement step, not a delay fixed at the start of the frame.
C26_AccumulatorBelowDelayAtReturn ==
  Playing =>
    \A delta \in LongFrames :
      LET r == gameLoop(Cur, delta, NoKey)[1]
      IN (~r.gameOver /\ ~r.hung) =>
           /\ 0 <= r.accumulator
           /\ r.accumulator < computeDelay(r, r.level)

\* C27: paused and gameOver are never both true: a press of the pause key
\* seen by a frame while gameOver is true neither sets paused nor opens the
\* pause overlay, and no frame takes gameOver back to false (restart does).
C27_NoPauseInGameOver ==
  [][/\ ~(paused' /\ gameOver')
     /\ (gameOver /\ InputSampled /\ loops' = loops) =>
          (~paused' /\ ~pausedShown' /\ gameOver')]_vars

\* C28: paused flips exactly once per press of the pause key: a frame flips
\* it exactly when it finds the key down and the frame before found it up
\* (pausePressed is what the frame before found), so it does not flip again
\* while the key stays down and flips again only after a frame has found the
\* key up.  (The frame in which Q quits sets paused to false besides.)
C28_PauseFlipsOncePerPress ==
  [][(InputSampled /\ loops' = loops) =>
       /\ ~QuitHonoured =>
            ((paused' # paused) <=> (pausePressed' /\ ~pausePressed))
       /\ (loops > 1 /\ pc' # "idle") => pausePressed' = inPause']_vars

\* A frame of a running game has found P down and has left the game paused.
C28_Witness ==
  /\ "input" \in Range(events) /\ "showMainMenu" \notin Range(events)
  /\ paused /\ pausedShown /\ pausePressed
  /\ ~mainMenuShown /\ ~gameOver

\* C29: lock-and-respawn replaces the snake and resets neither score nor
\* level: afterwards the body is a vertical line of 1 to 4 segments with
\* segment i (counted from 0) at (floor(GRID_WIDTH / 2), -i), direction is
\* (0,1), nextDirection is null and the held-key state is cleared; score is
\* not below what it was and level is not below what it was.
C29_RespawnKeepsScoreAndLevel ==
  [][(AtStep /\ LockedNext) =>
       /\ Len(body') \in 1..MAX_SPAWN_LEN
       /\ \A i \in 1..Len(body') : body'[i] = <<GRID_WIDTH \div 2, 0 - (i - 1)>>
       /\ direction' = <<0, 1>>
       /\ nextDirection' = Null
       /\ activeDirectionKey' = NoKey /\ holdTime' = 0
       /\ score' >= score
       /\ level' >= level]_vars

\* A lock at level 2 with a positive score has just respawned a snake of two
\* segments: level and score are still there.
C29_Witness ==
  /\ Locked /\ ~gameOver
  /\ landedBlocks > BLOCKS_PER_LEVEL /\ level = 2 /\ score > 0
  /\ body = Column(2)
  /\ direction = <<0, 1>> /\ nextDirection = Null
  /\ activeDirectionKey = NoKey

C31_SegmentsAdjacent ==
  \A i \in 2..Len(body) :
    <<body[i - 1][1] - body[i][1], body[i - 1][2] - body[i][2]>> \in UnitSteps

\* A snake that has eaten and turned: three or more segments, not in one
\* line, just moved.
C31_Witness ==
  /\ "move" \in Range(events)
  /\ Len(body) >= 3
  /\ body[1][1] # body[3][1] /\ body[1][2] # body[3][2]

\* C32: in every reachable state the snake body segments are pairwise
\* distinct cells; in particular a step in which the head enters the cell of
\* the tail never leaves head and tail on the same cell.
C32_SegmentsDistinct ==
  \A i, j \in 1..Len(body) : body[i] = body[j] => i = j

\* landedBlocks less the number of static blocks: GRID_WIDTH times the rows
\* cleared so far in the session, if the claim below holds.
ClearedBlocks(g) == g.landedBlocks - Cardinality(g.staticBlocks)

\* C33: between resets landedBlocks = (number of static blocks) + GRID_WIDTH
\* * (total rows cleared in the session).  Both sides are 0 after a reset, so
\* step by step: a lock adds one new static block for every segment of the
\* snake (no segment on an existing block, no cell counted twice) and
\* raises landedBlocks less the number of static blocks by GRID_WIDTH times
\* what clearLines returned; no other step of a session changes landedBlocks
\* or the static blocks.
C33_LandedBlocksAccount ==
  [][/\ (AtStep /\ LockedNext) =>
          /\ Cardinality(LockedField) = Cardinality(staticBlocks) + Len(body)
          /\ ClearedBlocks([landedBlocks |-> landedBlocks',
                            staticBlocks |-> staticBlocks']) =
               ClearedBlocks(Cur) + GRID_WIDTH * linesCleared'
     /\ (loops' = loops /\ ~LockedNext) =>
          UNCHANGED <<landedBlocks, staticBlocks>>]_vars

\* ----------------------------------------------- Grid.clearLines alone
\* The calls of Grid.clearLines on every field of the cells below: the grid,
\* the row above it and the column to the right of it, where Grid.lockSnake
\* can put blocks as well.
ClearCells == (0..GRID_WIDTH) \X (-1..(GRID_HEIGHT - 1))

\* Grid.clearLines has been called.
InitClear ==
  \E b \in SUBSET ClearCells :
    Is([Constructed EXCEPT !.staticBlocks = b, !.mainMenuShown = FALSE,
                           !.loops = 1, !.pc = "clearLines"])

\* The call returns: the field it leaves and the value it returns.
ClearLines ==
  /\ pc = "clearLines"
  /\ LET cl == clearLines(staticBlocks)
     IN Becomes([Cur EXCEPT !.staticBlocks = cl[1], !.linesCleared = cl[2],
                            !.pc = "idle"])

SpecClear == InitClear /\ [][ClearLines]_vars

\* C34: when Grid.clearLines returns, no row of the grid is full; calling
\* clearLines again immediately returns 0 and leaves the static field
\* unchanged.
C34_ClearLinesLeavesNoFullRow ==
  [][pc = "clearLines" =>
       /\ \A y \in 0..(GRID_HEIGHT - 1) : ~isLineFull(staticBlocks', y)
       /\ clearLines(staticBlocks') = <<staticBlocks', 0>>]_vars

\* Grid.clearLines has returned 2 or more and has left blocks in the grid.
C34_Witness ==
  /\ pc = "idle" /\ loops = 1
  /\ linesCleared >= 2
  /\ \E c \in staticBlocks : InGrid(c)

\* C35: between two resets score and level never decrease, score >= 0 and
\* level >= 1 always hold, and score changes only by + 10 * level in an
\* eating step or by + 50 * level * linesCleared in a lock (level being the
\* value before the step); line clears never lower the level.
C35_ScoreAndLevelMonotone ==
  [][/\ score >= 0 /\ level >= 1 /\ score' >= 0 /\ level' >= 1
     /\ loops' = loops =>
          /\ score' >= score /\ level' >= level
          /\ score' # score =>
               /\ AtStep
               /\ \/ AteNext /\ score' = score + FOOD_SCORE * level
                  \/ LockedNext /\ linesCleared' >= 1
                       /\ score' = score + LINE_SCORE * level * linesCleared'
     /\ (AtStep /\ AteNext) => score' = score + FOOD_SCORE * level
     /\ (AtStep /\ LockedNext /\ "lineClear" \in Range(events')) =>
          level' >= level]_vars

\* The snake has just eaten at level 2: the score of the session so far plus
\* 20.
C35_Witness ==
  /\ "eat" \in Range(events)
  /\ level = 2
  /\ score = (LateRows + 1) * LINE_SCORE + 2 * FOOD_SCORE

\* The number of times the sound e was played in the events evs.
Played(evs, e) == Cardinality({i \in 1..Len(evs) : evs[i] = e})

\* The step just taken locked the snake: Grid.lockSnake counted its segments.
LockedSnakeNext == landedBlocks' > landedBlocks

\* C36: every movement step emits exactly one of the notifications collision,
\* eat, move: collision exactly once and before the snake is locked when the
\* step locks, eat when the new head is the food cell, move otherwise;
\* lineClear is emitted in a step iff clearLines returned a value > 0.
C36_OneNotificationPerStep ==
  [][AtStep =>
       /\ Played(events', "collision") + Played(events', "eat")
            + Played(events', "move") = 1
       /\ IF LockedSnakeNext
          THEN Played(events', "collision") = 1 /\ events'[1] = "collision"
          ELSE IF getHead([body |-> body']) = food
               THEN Played(events', "eat") = 1
               ELSE Played(events', "move") = 1
       /\ ("lineClear" \in Range(events')) <=>
            (LockedSnakeNext /\ linesCleared' > 0)]_vars

\* ------------------------------------------------ the held key alone
\* The calls that touch Snake.activeDirectionKey and Snake.keyHoldStart, in
\* any order, on snakes of 1..MaxSegments segments at levels 1..MaxLevel:
\* setActiveDirection, clearActiveDirection, spawn, computeDelay, and time
\* passing in steps of HOLD_SCALE / HoldSteps.  pc names the last call;
\* inKey is the key setActiveDirection was called with; delay is the value
\* of the last call if that was computeDelay.
HoldStep == Ticks(HOLD_SCALE) \div HoldSteps

InitHold ==
  \E n \in 1..MaxSegments, lvl \in 1..MaxLevel :
    Is([Constructed EXCEPT !.body = Column(n), !.level = lvl,
                           !.mainMenuShown = FALSE, !.loops = 1,
                           !.pc = "spawned"])

SetActiveDirection ==
  \E key \in DirectionKeys :
    Becomes([setActiveDirection(Cur, key) EXCEPT
               !.pc = "keySet", !.inKey = key, !.delay = 0])

ClearActiveDirection ==
  Becomes([clearActiveDirection(Cur) EXCEPT
             !.pc = "keyCleared", !.inKey = NoKey, !.delay = 0])

Respawn ==
  \E g \in spawn(Cur) :
    Becomes([g EXCEPT !.pc = "spawned", !.inKey = NoKey, !.delay = 0])

HoldOn ==
  /\ activeDirectionKey # NoKey
  /\ Becomes([Elapse(Cur, HoldStep) EXCEPT
                !.pc = "held", !.inKey = NoKey, !.delay = 0])

CallComputeDelay ==
  Becomes([Cur EXCEPT !.delay = computeDelay(Cur, level), !.pc = "computed",
                      !.inKey = NoKey])

NextHold ==
  \/ SetActiveDirection
  \/ ClearActiveDirection
  \/ Respawn
  \/ HoldOn
  \/ CallComputeDelay

SpecHold == InitHold /\ [][NextHold]_vars

\* The delay of a snake of n segments at level lvl with no key held, in ms.
BaseDelayOf(n, lvl) ==
  Max(MIN_BASE_DELAY,
      MOVE_DELAY - LEVEL_STEP * Min(lvl - 1, MAX_LEVEL_STEPS)
        - SEGMENT_STEP * (n - 1))

BaseDelay == BaseDelayOf(Len(body), level)

\* C37: while a key is held, computeDelay interpolates linearly from the base
\* delay to FAST_MOVE_DELAY over HOLD_SCALE ms, so after 500 ms or more of
\* continuous holding it returns exactly 50 for every level and body length;
\* setActiveDirection with the same key keeps the hold start, with a
\* different key restarts it, and clearActiveDirection or spawn ends the
\* acceleration (the value is the base delay again).
C37_HoldAcceleration ==
  [][/\ pc' = "computed" =>
          /\ activeDirectionKey = NoKey => delay' = Ticks(BaseDelay)
          /\ activeDirectionKey # NoKey =>
               /\ delay' =
                    Ticks(BaseDelay)
                      - ((BaseDelay - FAST_MOVE_DELAY)
                           * Min(holdTime, Ticks(HOLD_SCALE))) \div HOLD_SCALE
               /\ holdTime >= Ticks(HOLD_SCALE) =>
                    delay' = Ticks(FAST_MOVE_DELAY)
     /\ pc' = "keySet" =>
          /\ activeDirectionKey' = inKey'
          /\ holdTime' = IF inKey' = activeDirectionKey THEN holdTime ELSE 0
     /\ pc' = "held" =>
          holdTime' = Min(holdTime + HoldStep, Ticks(HOLD_SCALE))
     /\ pc' \in {"keyCleared", "spawned"} =>
          /\ activeDirectionKey' = NoKey /\ holdTime' = 0
          /\ computeDelay([body |-> body',
                           activeDirectionKey |-> activeDirectionKey',
                           holdTime |-> holdTime'], level') =
               Ticks(BaseDelayOf(Len(body'), level'))]_vars

\* computeDelay has returned 50 ms for a snake of three or more segments
\* above level 1 whose key has been held for HOLD_SCALE.
C37_Witness ==
  /\ pc = "computed"
  /\ activeDirectionKey # NoKey /\ holdTime >= Ticks(HOLD_SCALE)
  /\ level >= 2 /\ Len(body) >= 3
  /\ delay = Ticks(FAST_MOVE_DELAY)

\* C38: at any time at most one gameLoop callback is pending in
\* requestAnimationFrame: no sequence of start, quit to main menu, start, or
\* of game over, restart, leaves two or more loop chains running, so that
\* handleInput and render run once per display frame (no display frame has a
\* second callback to run).
C38_OneLoopChain == loops <= 1 /\ callbacksLeft = 0 /\ pc # "callback"

\* ------------------------------------------------ no directional input
\* Sessions in which no direction key, P or Q is ever pressed: the snakes
\* fall down the spawn column.  Nothing here grows without bound (the column
\* fills up), so the frames are taken without the caps of InSession.
NextFall ==
  \/ ClickStart({FALSE}, {FALSE}, {NoKey})
  \/ ClickRestart
  \/ DisplayFrame({FALSE}, {FALSE}, {NoKey})
  \/ UpdateSnake
  \/ ExitLoop

SpecFall == Init /\ [][NextFall]_vars

\* requestAnimationFrame keeps calling gameLoop (frames keep arriving, and a
\* frame that can take no short delta takes a long one), and a handler that
\* has started runs to its end.
SpecFallFair ==
  /\ SpecFall
  /\ WF_vars(DisplayFrame({FALSE}, {FALSE}, {NoKey}))
  /\ WF_vars(UpdateSnake)
  /\ WF_vars(ExitLoop)

\* C39: if no directional input is ever given and frames keep arriving with
\* positive time deltas while the game is not paused, every started session
\* eventually reaches gameOver = true.
C39_SessionEnds == (loops >= 1 /\ ~gameOver) ~> gameOver

\* A session with no input has ended with the spawn column full of blocks.
C39_Witness ==
  /\ gameOver /\ gameOverShown /\ ~hung
  /\ \A y \in 0..(GRID_HEIGHT - 1) : <<GRID_WIDTH \div 2, y>> \in staticBlocks
  /\ \A c \in staticBlocks : c[1] = GRID_WIDTH \div 2

====
